---- MODULE Spec2Model ----
(***************************************************************************)
(* Model of arr-monitor-manager: the quality gate and the webhook and      *)
(* force-unmonitor orchestrators of src/app.py, with the Sonarr/Radarr     *)
(* client of src/api_client.py.                                            *)
(*                                                                         *)
(* configs is ConfigManager.configs, the stored configurations in the     *)
(* order they were added; uuids counts the values uuid4() has returned,    *)
(* each of which is new.                                                   *)
(*                                                                         *)
(* JSON documents are records whose fields are optional values: an absent  *)
(* key is None (the empty tuple) and a present key is Some(v) (a 1-tuple), *)
(* so that dict.get(key, default) is Get(field, default).  Documents carry *)
(* values of the type the Sonarr/Radarr API gives them (integer scores and *)
(* ids, string names); strings are tuples of characters.                   *)
(***************************************************************************)
EXTENDS Integers, Sequences, FiniteSets, TLC

VARIABLES gate, sonarr, radarr, run, configs, uuids

vars == <<gate, sonarr, radarr, run, configs, uuids>>

(***************************************************************************)
(* Bounds of the model.                                                    *)
(***************************************************************************)
MaxScore == 1
MaxNameLen == 2
MaxNames == 2
MaxSeries == 2
MaxEpisodes == 2
MaxMovies == 2
MaxPayloadEpisodes == 2

(***************************************************************************)
(* Python values.                                                          *)
(***************************************************************************)
None == <<>>
Some(v) == <<v>>

\* dict.get(key, default) on a field that is None when the key is absent
Get(field, default) == IF field = None THEN default ELSE field[1]

Alphabet == {"a", "A", "b"}

\* str.lower() on one character
LowerChar(c) == IF c = "A" THEN "a" ELSE c

\* str.lower()
Lower(s) == [i \in 1..Len(s) |-> LowerChar(s[i])]

\* Python's `sub in s` on strings
Contains(sub, s) ==
  \E k \in 0..(Len(s) - Len(sub)) : \A i \in 1..Len(sub) : s[k + i] = sub[i]

\* truthiness of an optional string: neither None nor ""
TruthyStr(field) == field # None /\ field[1] # <<>>

\* truthiness of an optional integer: neither None nor 0
TruthyInt(field) == field # None /\ field[1] # 0

\* [cf["name"] for cf in customFormats if cf.get("name")]
RECURSIVE FormatNames(_)
FormatNames(cfs) ==
  IF cfs = <<>> THEN <<>>
  ELSE IF TruthyStr(Head(cfs).name)
       THEN <<Head(cfs).name[1]>> \o FormatNames(Tail(cfs))
       ELSE FormatNames(Tail(cfs))

\* the empty JSON object, as a quality document
EmptyDoc == [customFormatScore |-> None, customFormats |-> None]

(***************************************************************************)
(* The quality gate, as each of its four copies in src/app.py computes it. *)
(***************************************************************************)
\* SonarrWebhookGate reading a missing threshold as 0
SonarrWebhookGateDefaultZero(config, webhook_data) ==
  LET quality == Get(webhook_data.customFormatInfo, EmptyDoc)
      quality_score == Get(quality.customFormatScore, 0)
      format_name == FormatNames(Get(quality.customFormats, <<>>))
  IN  \/ quality_score >= Get(config.quality_score, 0)
      \/ /\ TruthyStr(config.format_name)
         /\ format_name # <<>>
         /\ \E i \in 1..Len(format_name) :
              Contains(Lower(config.format_name[1]), Lower(format_name[i]))

SonarrWebhookGate(config, webhook_data) ==
  LET quality == Get(webhook_data.customFormatInfo, EmptyDoc)
      quality_score == Get(quality.customFormatScore, 0)
      format_name == FormatNames(Get(quality.customFormats, <<>>))
  IN  \/ /\ config.quality_score # None
         /\ quality_score >= config.quality_score[1]
      \/ /\ TruthyStr(config.format_name)
         /\ format_name # <<>>
         /\ \E i \in 1..Len(format_name) :
              Contains(Lower(config.format_name[1]), Lower(format_name[i]))

RadarrWebhookGate(config, webhook_data) ==
  LET quality == Get(webhook_data.customFormatInfo, EmptyDoc)
      quality_score == Get(quality.customFormatScore, 0)
      format_name == FormatNames(Get(quality.customFormats, <<>>))
  IN  \/ /\ config.quality_score # None
         /\ quality_score >= config.quality_score[1]
      \/ /\ TruthyStr(config.format_name)
         /\ format_name # <<>>
         /\ \E i \in 1..Len(format_name) :
              Contains(Lower(config.format_name[1]), Lower(format_name[i]))

\* SonarrScanGate with a strict comparison of the score
SonarrScanGateStrict(config, episode) ==
  LET episodeFile == Get(episode.episodeFile, EmptyDoc)
      quality_score == Get(episodeFile.customFormatScore, 0)
      format_name == FormatNames(Get(episodeFile.customFormats, <<>>))
  IN  \/ /\ config.quality_score # None
         /\ quality_score > config.quality_score[1]
      \/ /\ TruthyStr(config.format_name)
         /\ format_name # <<>>
         /\ \E i \in 1..Len(format_name) :
              Contains(Lower(config.format_name[1]), Lower(format_name[i]))

SonarrScanGate(config, episode) ==
  LET episodeFile == Get(episode.episodeFile, EmptyDoc)
      quality_score == Get(episodeFile.customFormatScore, 0)
      format_name == FormatNames(Get(episodeFile.customFormats, <<>>))
  IN  \/ /\ config.quality_score # None
         /\ quality_score >= config.quality_score[1]
      \/ /\ TruthyStr(config.format_name)
         /\ format_name # <<>>
         /\ \E i \in 1..Len(format_name) :
              Contains(Lower(config.format_name[1]), Lower(format_name[i]))

\* RadarrScanGate matching a format name on equality instead of containment
RadarrScanGateExact(config, movie_file) ==
  LET quality_score == Get(movie_file.customFormatScore, 0)
      format_name == FormatNames(Get(movie_file.customFormats, <<>>))
  IN  \/ /\ config.quality_score # None
         /\ quality_score >= config.quality_score[1]
      \/ /\ TruthyStr(config.format_name)
         /\ format_name # <<>>
         /\ \E i \in 1..Len(format_name) :
              Lower(config.format_name[1]) = Lower(format_name[i])

RadarrScanGate(config, movie_file) ==
  LET quality_score == Get(movie_file.customFormatScore, 0)
      format_name == FormatNames(Get(movie_file.customFormats, <<>>))
  IN  \/ /\ config.quality_score # None
         /\ quality_score >= config.quality_score[1]
      \/ /\ TruthyStr(config.format_name)
         /\ format_name # <<>>
         /\ \E i \in 1..Len(format_name) :
              Contains(Lower(config.format_name[1]), Lower(format_name[i]))

(***************************************************************************)
(* Input domains of the gate.                                              *)
(***************************************************************************)
Scores == (0 - MaxScore)..MaxScore

\* the strings of at most n characters
StringsUpTo(n) == UNION {[1..k -> Alphabet] : k \in 0..n}

\* the tuples of at most n elements of S
SeqsUpTo(S, n) == UNION {[1..k -> S] : k \in 0..n}

Opt(S) == {None} \cup {Some(v) : v \in S}

\* one entry of customFormats: an object whose "name" may be missing or empty
FormatEntries == [name : Opt(StringsUpTo(MaxNameLen))]

QualityDocs ==
  [customFormatScore : Opt(Scores),
   customFormats : Opt(SeqsUpTo(FormatEntries, MaxNames))]

\* the fields of a stored configuration the gate reads
GateConfigs ==
  [quality_score : Opt(Scores), format_name : Opt(StringsUpTo(MaxNameLen))]

\* the documents the four copies read the quality document from
WebhookOf(quality) ==
  [eventType |-> Some("Download"), episodes |-> None, movie |-> None,
   customFormatInfo |-> quality]

EpisodeOf(quality) ==
  [id |-> Some(1), seriesId |-> 1, monitored |-> TRUE, hasFile |-> TRUE,
   episodeFile |-> quality]

Sites == {"sonarr_webhook", "radarr_webhook", "sonarr_scan", "radarr_scan"}

\* the verdict of each copy on one quality document (an absent document is
\* the empty object for every copy)
Verdicts(config, quality) ==
  [site \in Sites |->
     CASE site = "sonarr_webhook" -> SonarrWebhookGate(config, WebhookOf(quality))
       [] site = "radarr_webhook" -> RadarrWebhookGate(config, WebhookOf(quality))
       [] site = "sonarr_scan" -> SonarrScanGate(config, EpisodeOf(quality))
       [] site = "radarr_scan" -> RadarrScanGate(config, Get(quality, EmptyDoc))]

InitGate ==
  /\ \E config \in GateConfigs, quality \in Opt(QualityDocs) :
       gate = [evaluated |-> FALSE, config |-> config, quality |-> quality,
               verdict |-> [site \in Sites |-> FALSE]]
  /\ sonarr = [series |-> <<>>, episodes |-> <<>>]
  /\ radarr = [movies |-> <<>>]
  /\ run = [op |-> "idle"]
  /\ configs = <<>>
  /\ uuids = 0

\* one evaluation of the gate, by each copy, on the drawn inputs
EvalGate ==
  /\ ~gate.evaluated
  /\ gate' = [gate EXCEPT !.evaluated = TRUE,
                          !.verdict = Verdicts(gate.config, gate.quality)]
  /\ UNCHANGED <<sonarr, radarr, run, configs, uuids>>

NextGate == EvalGate

SpecGate == InitGate /\ [][NextGate]_vars


(***************************************************************************)
(* The remote services.  sonarr is the library of the Sonarr server: the   *)
(* series it lists and its episodes (with the episode file each embeds     *)
(* under includeEpisodeFile=true); radarr is the library of the Radarr     *)
(* server: its movies, each with the movie file stored under its           *)
(* movieFileId.  A request either succeeds or fails (timeout, connection   *)
(* error, HTTP error); _make_request turns every failure into None.        *)
(***************************************************************************)
HasEpisode(lib, episode_id) ==
  \E j \in 1..Len(lib.episodes) : lib.episodes[j].id = Some(episode_id)

HasMovie(lib, movie_id) ==
  \E j \in 1..Len(lib.movies) : lib.movies[j].id = Some(movie_id)

\* a PUT that flips the monitored flag of the episodes
SetEpisodesToggled(lib, ids) ==
  [lib EXCEPT !.episodes =
     [j \in 1..Len(lib.episodes) |->
        IF lib.episodes[j].id # None /\ lib.episodes[j].id[1] \in ids
        THEN [lib.episodes[j] EXCEPT !.monitored = ~lib.episodes[j].monitored]
        ELSE lib.episodes[j]]]

\* the library after a successful PUT that sets "monitored": false on episodes
SetEpisodesUnmonitored(lib, ids) ==
  [lib EXCEPT !.episodes =
     [j \in 1..Len(lib.episodes) |->
        IF lib.episodes[j].id # None /\ lib.episodes[j].id[1] \in ids
        THEN [lib.episodes[j] EXCEPT !.monitored = FALSE]
        ELSE lib.episodes[j]]]

\* the library after a successful PUT of a movie with "monitored": false
SetMovieUnmonitored(lib, movie_id) ==
  [lib EXCEPT !.movies =
     [j \in 1..Len(lib.movies) |->
        IF lib.movies[j].id = Some(movie_id)
        THEN [lib.movies[j] EXCEPT !.monitored = FALSE]
        ELSE lib.movies[j]]]

\* the outcomes of a single-item unmonitor: both requests succeed, the GET
\* fails, or the GET succeeds and the PUT fails
Outcomes == {"ok", "get_failed", "put_failed"}

Range(f) == {f[i] : i \in DOMAIN f}

(***************************************************************************)
(* SonarrRadarrClient.  Every method gives the value it returns (ret), the *)
(* requests it sent (http) and the library after them (lib).               *)
(***************************************************************************)
UnmonitorEpisode(service_type, lib, episode_id, outcome) ==
  IF service_type # "sonarr"
  THEN [ret |-> FALSE, http |-> <<>>, lib |-> lib]
  ELSE IF outcome = "get_failed" \/ ~HasEpisode(lib, episode_id)
  THEN [ret |-> FALSE, http |-> <<"GET">>, lib |-> lib]
  ELSE IF outcome = "ok"
  THEN [ret |-> TRUE, http |-> <<"GET", "PUT">>,
        lib |-> SetEpisodesUnmonitored(lib, {episode_id})]
  ELSE [ret |-> FALSE, http |-> <<"GET", "PUT">>, lib |-> lib]

UnmonitorEpisodes(service_type, lib, episode_ids, ok) ==
  IF service_type # "sonarr"
  THEN [ret |-> FALSE, http |-> <<>>, lib |-> lib]
  ELSE IF Len(episode_ids) = 0
  THEN [ret |-> FALSE, http |-> <<>>, lib |-> lib]
  ELSE IF ok
  THEN [ret |-> TRUE, http |-> <<"PUT">>,
        lib |-> SetEpisodesUnmonitored(lib, Range(episode_ids))]
  ELSE [ret |-> FALSE, http |-> <<"PUT">>, lib |-> lib]

\* unmonitor_movie returning True once the movie was fetched
UnmonitorMovieIgnorePut(service_type, lib, movie_id, outcome) ==
  IF service_type # "radarr"
  THEN [ret |-> FALSE, http |-> <<>>, lib |-> lib]
  ELSE IF outcome = "get_failed" \/ ~HasMovie(lib, movie_id)
  THEN [ret |-> FALSE, http |-> <<"GET">>, lib |-> lib]
  ELSE IF outcome = "ok"
  THEN [ret |-> TRUE, http |-> <<"GET", "PUT">>,
        lib |-> SetMovieUnmonitored(lib, movie_id)]
  ELSE [ret |-> TRUE, http |-> <<"GET", "PUT">>, lib |-> lib]

UnmonitorMovie(service_type, lib, movie_id, outcome) ==
  IF service_type # "radarr"
  THEN [ret |-> FALSE, http |-> <<>>, lib |-> lib]
  ELSE IF outcome = "get_failed" \/ ~HasMovie(lib, movie_id)
  THEN [ret |-> FALSE, http |-> <<"GET">>, lib |-> lib]
  ELSE IF outcome = "ok"
  THEN [ret |-> TRUE, http |-> <<"GET", "PUT">>,
        lib |-> SetMovieUnmonitored(lib, movie_id)]
  ELSE [ret |-> FALSE, http |-> <<"GET", "PUT">>, lib |-> lib]

\* the episode documents GET episode?seriesId=..&includeEpisodeFile=true lists
EpisodesOfSeries(lib, series_id) ==
  IF series_id # 0
  THEN SelectSeq(lib.episodes, LAMBDA e : e.seriesId = series_id)
  ELSE lib.episodes

GetEpisodes(service_type, lib, series_id, ok) ==
  IF service_type # "sonarr"
  THEN [ret |-> None, http |-> <<>>, lib |-> lib]
  ELSE [ret |-> IF ok THEN Some(EpisodesOfSeries(lib, series_id)) ELSE None,
        http |-> <<"GET">>, lib |-> lib]

GetMovies(service_type, lib, ok) ==
  IF service_type # "radarr"
  THEN [ret |-> None, http |-> <<>>, lib |-> lib]
  ELSE [ret |-> IF ok THEN Some(lib.movies) ELSE None,
        http |-> <<"GET">>, lib |-> lib]

\* the movie file stored under movie_file_id, None when there is none
MovieFileOf(lib, movie_file_id) ==
  LET owners == SelectSeq(lib.movies,
                          LAMBDA m : m.movieFileId = Some(movie_file_id))
  IN  IF owners = <<>> THEN None ELSE Head(owners).movieFile

GetMovieFile(service_type, lib, movie_file_id, ok) ==
  IF service_type # "radarr"
  THEN [ret |-> None, http |-> <<>>, lib |-> lib]
  ELSE IF movie_file_id = None
  THEN [ret |-> None, http |-> <<>>, lib |-> lib]
  ELSE [ret |-> IF ok THEN MovieFileOf(lib, movie_file_id[1]) ELSE None,
        http |-> <<"GET">>, lib |-> lib]

GetSeries(service_type, lib, ok) ==
  IF service_type # "sonarr"
  THEN [ret |-> None, http |-> <<>>, lib |-> lib]
  ELSE [ret |-> IF ok THEN Some(lib.series) ELSE None,
        http |-> <<"GET">>, lib |-> lib]

\* one entry of a run's log of client calls
Call(fn, arg, r) == [fn |-> fn, arg |-> arg, http |-> r.http, ret |-> r.ret]

(***************************************************************************)
(* The event orchestrators (webhook-driven).  outs[k] is the outcome of    *)
(* the unmonitor call for the k-th listed episode, should it be made.      *)
(***************************************************************************)
\* UnmonitorListed leaving the loop at the first failed call
RECURSIVE UnmonitorListedStopOnFailure(_, _, _, _)
UnmonitorListedStopOnFailure(episodes, k, outs, acc) ==
  IF k > Len(episodes) THEN acc
  ELSE LET episode_id == episodes[k].id
       IN  IF TruthyInt(episode_id)
           THEN LET r == UnmonitorEpisode("sonarr", acc.lib, episode_id[1], outs[k])
                    next == [calls |-> Append(acc.calls,
                                        Call("unmonitor_episode", episode_id[1], r)),
                             lib |-> r.lib]
                IN  IF r.ret
                    THEN UnmonitorListedStopOnFailure(episodes, k + 1, outs, next)
                    ELSE next
           ELSE UnmonitorListedStopOnFailure(episodes, k + 1, outs, acc)

\* for episode in episodes: from the k-th listed episode on
RECURSIVE UnmonitorListed(_, _, _, _)
UnmonitorListed(episodes, k, outs, acc) ==
  IF k > Len(episodes) THEN acc
  ELSE LET episode_id == episodes[k].id
       IN  IF TruthyInt(episode_id)
           THEN LET r == UnmonitorEpisode("sonarr", acc.lib, episode_id[1], outs[k])
                IN  UnmonitorListed(episodes, k + 1, outs,
                      [calls |-> Append(acc.calls,
                                        Call("unmonitor_episode", episode_id[1], r)),
                       lib |-> r.lib])
           ELSE UnmonitorListed(episodes, k + 1, outs, acc)

\* ProcessSonarrWebhook unmonitoring the first listed episode only
ProcessSonarrWebhookFirstOnly(config, webhook_data, lib, outs) ==
  IF webhook_data.eventType # Some("Download")
  THEN [result |-> TRUE, client |-> FALSE, calls |-> <<>>, lib |-> lib]
  ELSE LET episodes == Get(webhook_data.episodes, <<>>)
           should_unmonitor == SonarrWebhookGate(config, webhook_data)
       IN  IF should_unmonitor
           THEN LET first == IF episodes = <<>> THEN <<>> ELSE <<Head(episodes)>>
                    r == UnmonitorListed(first, 1, outs,
                                         [calls |-> <<>>, lib |-> lib])
                IN  [result |-> TRUE, client |-> TRUE, calls |-> r.calls,
                     lib |-> r.lib]
           ELSE [result |-> TRUE, client |-> FALSE, calls |-> <<>>, lib |-> lib]

ProcessSonarrWebhook(config, webhook_data, lib, outs) ==
  IF webhook_data.eventType # Some("Download")
  THEN [result |-> TRUE, client |-> FALSE, calls |-> <<>>, lib |-> lib]
  ELSE LET episodes == Get(webhook_data.episodes, <<>>)
           should_unmonitor == SonarrWebhookGate(config, webhook_data)
       IN  IF should_unmonitor
           THEN LET r == UnmonitorListed(episodes, 1, outs,
                                         [calls |-> <<>>, lib |-> lib])
                IN  [result |-> TRUE, client |-> TRUE, calls |-> r.calls,
                     lib |-> r.lib]
           ELSE [result |-> TRUE, client |-> FALSE, calls |-> <<>>, lib |-> lib]

\* ProcessRadarrWebhook without the check of the event type
ProcessRadarrWebhookAnyEvent(config, webhook_data, lib, outcome) ==
  LET movie == Get(webhook_data.movie, [id |-> None])
      movie_id == movie.id
      should_unmonitor == RadarrWebhookGate(config, webhook_data)
  IN  IF should_unmonitor /\ TruthyInt(movie_id)
      THEN LET r == UnmonitorMovie("radarr", lib, movie_id[1], outcome)
           IN  [result |-> TRUE, client |-> TRUE,
                calls |-> <<Call("unmonitor_movie", movie_id[1], r)>>,
                lib |-> r.lib]
      ELSE [result |-> TRUE, client |-> FALSE, calls |-> <<>>, lib |-> lib]

ProcessRadarrWebhook(config, webhook_data, lib, outcome) ==
  IF webhook_data.eventType # Some("Download")
  THEN [result |-> TRUE, client |-> FALSE, calls |-> <<>>, lib |-> lib]
  ELSE LET movie == Get(webhook_data.movie, [id |-> None])
           movie_id == movie.id
           should_unmonitor == RadarrWebhookGate(config, webhook_data)
       IN  IF should_unmonitor /\ TruthyInt(movie_id)
           THEN LET r == UnmonitorMovie("radarr", lib, movie_id[1], outcome)
                IN  [result |-> TRUE, client |-> TRUE,
                     calls |-> <<Call("unmonitor_movie", movie_id[1], r)>>,
                     lib |-> r.lib]
           ELSE [result |-> TRUE, client |-> FALSE, calls |-> <<>>, lib |-> lib]

(***************************************************************************)
(* The batch orchestrators (force-unmonitor scans).  net gives the outcome *)
(* of each request the scan may send.  A listing that fails returns None,  *)
(* and iterating None raises: the except clause makes the scan return      *)
(* False.                                                                  *)
(***************************************************************************)
\* CollectEpisodes without the check that the episode has a file
RECURSIVE CollectEpisodesIgnoreHasFile(_, _, _)
CollectEpisodesIgnoreHasFile(config, episodes, to_unmonitor) ==
  IF episodes = <<>> THEN to_unmonitor
  ELSE LET episode == Head(episodes)
           episode_id == episode.id
       IN  IF episode_id = None
           THEN CollectEpisodesIgnoreHasFile(config, Tail(episodes), to_unmonitor)
           ELSE IF ~episode.monitored
           THEN CollectEpisodesIgnoreHasFile(config, Tail(episodes), to_unmonitor)
           ELSE IF SonarrScanGate(config, episode)
           THEN CollectEpisodesIgnoreHasFile(config, Tail(episodes),
                                             Append(to_unmonitor, episode_id[1]))
           ELSE CollectEpisodesIgnoreHasFile(config, Tail(episodes), to_unmonitor)

\* CollectEpisodes without the check that the episode is still monitored
RECURSIVE CollectEpisodesIgnoreMonitored(_, _, _)
CollectEpisodesIgnoreMonitored(config, episodes, to_unmonitor) ==
  IF episodes = <<>> THEN to_unmonitor
  ELSE LET episode == Head(episodes)
           episode_id == episode.id
       IN  IF episode_id = None
           THEN CollectEpisodesIgnoreMonitored(config, Tail(episodes), to_unmonitor)
           ELSE IF ~episode.hasFile
           THEN CollectEpisodesIgnoreMonitored(config, Tail(episodes), to_unmonitor)
           ELSE IF SonarrScanGate(config, episode)
           THEN CollectEpisodesIgnoreMonitored(config, Tail(episodes),
                                               Append(to_unmonitor, episode_id[1]))
           ELSE CollectEpisodesIgnoreMonitored(config, Tail(episodes), to_unmonitor)

\* for episode in <the episodes of one series>: the ids appended to to_unmonitor
RECURSIVE CollectEpisodes(_, _, _)
CollectEpisodes(config, episodes, to_unmonitor) ==
  IF episodes = <<>> THEN to_unmonitor
  ELSE LET episode == Head(episodes)
           episode_id == episode.id
       IN  IF episode_id = None
           THEN CollectEpisodes(config, Tail(episodes), to_unmonitor)
           ELSE IF ~episode.monitored
           THEN CollectEpisodes(config, Tail(episodes), to_unmonitor)
           ELSE IF ~episode.hasFile
           THEN CollectEpisodes(config, Tail(episodes), to_unmonitor)
           ELSE IF SonarrScanGate(config, episode)
           THEN CollectEpisodes(config, Tail(episodes),
                                Append(to_unmonitor, episode_id[1]))
           ELSE CollectEpisodes(config, Tail(episodes), to_unmonitor)

\* for serie in client.get_series(): from the k-th listed series on
RECURSIVE ScanSeries(_, _, _, _, _, _)
ScanSeries(config, lib, series, k, net, acc) ==
  IF k > Len(series) THEN acc
  ELSE LET serie_id == series[k].id
       IN  IF serie_id = None
           THEN ScanSeries(config, lib, series, k + 1, net, acc)
           ELSE LET r == GetEpisodes("sonarr", lib, serie_id[1], net.episodes[k])
                    calls == Append(acc.calls, Call("get_episodes", serie_id[1], r))
                IN  IF r.ret = None
                    THEN [calls |-> calls, to_unmonitor |-> acc.to_unmonitor,
                          raised |-> TRUE]
                    ELSE ScanSeries(config, lib, series, k + 1, net,
                           [calls |-> calls,
                            to_unmonitor |->
                              CollectEpisodes(config, r.ret[1], acc.to_unmonitor),
                            raised |-> FALSE])

\* process_sonarr_force_unmonitor sending what it collected before a listing
\* call failed
ProcessSonarrForceUnmonitorKeepCollected(config, lib, net) ==
  LET listed == GetSeries("sonarr", lib, net.series)
      first == <<Call("get_series", None, listed)>>
  IN  IF listed.ret = None
      THEN [result |-> FALSE, client |-> TRUE, calls |-> first, lib |-> lib]
      ELSE LET scan == ScanSeries(config, lib, listed.ret[1], 1, net,
                         [calls |-> first, to_unmonitor |-> <<>>, raised |-> FALSE])
           IN  IF Len(scan.to_unmonitor) > 0
               THEN LET r == UnmonitorEpisodes("sonarr", lib, scan.to_unmonitor,
                                               net.bulk)
                    IN  [result |-> r.ret /\ ~scan.raised, client |-> TRUE,
                         calls |-> Append(scan.calls,
                                     Call("unmonitor_episodes", scan.to_unmonitor, r)),
                         lib |-> r.lib]
               ELSE [result |-> ~scan.raised, client |-> TRUE,
                     calls |-> scan.calls, lib |-> lib]

\* process_sonarr_force_unmonitor reporting success whatever the bulk call
\* returned
ProcessSonarrForceUnmonitorIgnoreBulk(config, lib, net) ==
  LET listed == GetSeries("sonarr", lib, net.series)
      first == <<Call("get_series", None, listed)>>
  IN  IF listed.ret = None
      THEN [result |-> FALSE, client |-> TRUE, calls |-> first, lib |-> lib]
      ELSE LET scan == ScanSeries(config, lib, listed.ret[1], 1, net,
                         [calls |-> first, to_unmonitor |-> <<>>, raised |-> FALSE])
           IN  IF scan.raised
               THEN [result |-> FALSE, client |-> TRUE, calls |-> scan.calls,
                     lib |-> lib]
               ELSE IF Len(scan.to_unmonitor) > 0
               THEN LET r == UnmonitorEpisodes("sonarr", lib, scan.to_unmonitor,
                                               net.bulk)
                    IN  [result |-> TRUE, client |-> TRUE,
                         calls |-> Append(scan.calls,
                                     Call("unmonitor_episodes", scan.to_unmonitor, r)),
                         lib |-> r.lib]
               ELSE [result |-> TRUE, client |-> TRUE, calls |-> scan.calls,
                     lib |-> lib]

ProcessSonarrForceUnmonitor(config, lib, net) ==
  LET listed == GetSeries("sonarr", lib, net.series)
      first == <<Call("get_series", None, listed)>>
  IN  IF listed.ret = None
      THEN [result |-> FALSE, client |-> TRUE, calls |-> first, lib |-> lib]
      ELSE LET scan == ScanSeries(config, lib, listed.ret[1], 1, net,
                         [calls |-> first, to_unmonitor |-> <<>>, raised |-> FALSE])
           IN  IF scan.raised
               THEN [result |-> FALSE, client |-> TRUE, calls |-> scan.calls,
                     lib |-> lib]
               ELSE IF Len(scan.to_unmonitor) > 0
               THEN LET r == UnmonitorEpisodes("sonarr", lib, scan.to_unmonitor,
                                               net.bulk)
                    IN  [result |-> r.ret, client |-> TRUE,
                         calls |-> Append(scan.calls,
                                     Call("unmonitor_episodes", scan.to_unmonitor, r)),
                         lib |-> r.lib]
               ELSE [result |-> TRUE, client |-> TRUE, calls |-> scan.calls,
                     lib |-> lib]

\* ScanMovies leaving the loop when a movie file cannot be fetched
RECURSIVE ScanMoviesStopOnMissingFile(_, _, _, _, _)
ScanMoviesStopOnMissingFile(config, movies, k, net, acc) ==
  IF k > Len(movies) THEN acc
  ELSE LET movie == movies[k]
           movie_id == movie.id
           movie_file_id == movie.movieFileId
       IN  IF movie_id = None \/ movie_file_id = None \/ ~movie.monitored
           THEN ScanMoviesStopOnMissingFile(config, movies, k + 1, net, acc)
           ELSE LET f == GetMovieFile("radarr", acc.lib, movie_file_id, net.file[k])
                    fetched == Append(acc.calls,
                                      Call("get_movie_file", movie_file_id[1], f))
                IN  IF f.ret = None
                    THEN [calls |-> fetched, lib |-> acc.lib]
                    ELSE IF RadarrScanGate(config, f.ret[1])
                    THEN LET r == UnmonitorMovie("radarr", acc.lib, movie_id[1],
                                                 net.unmonitor[k])
                         IN  ScanMoviesStopOnMissingFile(config, movies, k + 1, net,
                               [calls |-> Append(fetched,
                                            Call("unmonitor_movie", movie_id[1], r)),
                                lib |-> r.lib])
                    ELSE ScanMoviesStopOnMissingFile(config, movies, k + 1, net,
                                    [calls |-> fetched, lib |-> acc.lib])

\* ScanMovies leaving the loop when an unmonitor call fails
RECURSIVE ScanMoviesStopOnFailedUnmonitor(_, _, _, _, _)
ScanMoviesStopOnFailedUnmonitor(config, movies, k, net, acc) ==
  IF k > Len(movies) THEN acc
  ELSE LET movie == movies[k]
           movie_id == movie.id
           movie_file_id == movie.movieFileId
       IN  IF movie_id = None \/ movie_file_id = None \/ ~movie.monitored
           THEN ScanMoviesStopOnFailedUnmonitor(config, movies, k + 1, net, acc)
           ELSE LET f == GetMovieFile("radarr", acc.lib, movie_file_id, net.file[k])
                    fetched == Append(acc.calls,
                                      Call("get_movie_file", movie_file_id[1], f))
                IN  IF f.ret = None
                    THEN ScanMoviesStopOnFailedUnmonitor(config, movies, k + 1, net,
                                    [calls |-> fetched, lib |-> acc.lib])
                    ELSE IF RadarrScanGate(config, f.ret[1])
                    THEN LET r == UnmonitorMovie("radarr", acc.lib, movie_id[1],
                                                 net.unmonitor[k])
                             next == [calls |-> Append(fetched,
                                            Call("unmonitor_movie", movie_id[1], r)),
                                      lib |-> r.lib]
                         IN  IF r.ret
                             THEN ScanMoviesStopOnFailedUnmonitor(config, movies,
                                                                  k + 1, net, next)
                             ELSE next
                    ELSE ScanMoviesStopOnFailedUnmonitor(config, movies, k + 1, net,
                                    [calls |-> fetched, lib |-> acc.lib])

\* for movie in client.get_movies(): from the k-th listed movie on
RECURSIVE ScanMovies(_, _, _, _, _)
ScanMovies(config, movies, k, net, acc) ==
  IF k > Len(movies) THEN acc
  ELSE LET movie == movies[k]
           movie_id == movie.id
           movie_file_id == movie.movieFileId
       IN  IF movie_id = None
           THEN ScanMovies(config, movies, k + 1, net, acc)
           ELSE IF movie_file_id = None
           THEN ScanMovies(config, movies, k + 1, net, acc)
           ELSE IF ~movie.monitored
           THEN ScanMovies(config, movies, k + 1, net, acc)
           ELSE LET f == GetMovieFile("radarr", acc.lib, movie_file_id, net.file[k])
                    fetched == Append(acc.calls,
                                      Call("get_movie_file", movie_file_id[1], f))
                IN  IF f.ret = None
                    THEN ScanMovies(config, movies, k + 1, net,
                                    [calls |-> fetched, lib |-> acc.lib])
                    ELSE IF RadarrScanGate(config, f.ret[1])
                    THEN LET r == UnmonitorMovie("radarr", acc.lib, movie_id[1],
                                                 net.unmonitor[k])
                         IN  ScanMovies(config, movies, k + 1, net,
                               [calls |-> Append(fetched,
                                            Call("unmonitor_movie", movie_id[1], r)),
                                lib |-> r.lib])
                    ELSE ScanMovies(config, movies, k + 1, net,
                                    [calls |-> fetched, lib |-> acc.lib])

ProcessRadarrForceUnmonitor(config, lib, net) ==
  LET listed == GetMovies("radarr", lib, net.movies)
      first == <<Call("get_movies", None, listed)>>
  IN  IF listed.ret = None
      THEN [result |-> FALSE, client |-> TRUE, calls |-> first, lib |-> lib]
      ELSE LET scan == ScanMovies(config, listed.ret[1], 1, net,
                                  [calls |-> first, lib |-> lib])
           IN  [result |-> TRUE, client |-> TRUE, calls |-> scan.calls,
                lib |-> scan.lib]

(***************************************************************************)
(* The request handlers of the web application.  run is the record of the  *)
(* request being answered: the configuration it ran with, its payload, the *)
(* response, and the client calls it made, in order.                       *)
(***************************************************************************)
Idle == [op |-> "idle"]

\* a payload that is falsy for `if not webhook_data`: the empty object
EmptyPayload ==
  [eventType |-> None, episodes |-> None, movie |-> None,
   customFormatInfo |-> None]

\* sonarr_webhook, for a request whose token resolved to config
HandleSonarrWebhook(config, webhook_data, lib, outs) ==
  IF webhook_data = EmptyPayload
  THEN [run |-> [op |-> "sonarr_webhook", config |-> config,
                 data |-> webhook_data, processed |-> FALSE, status |-> 400,
                 result |-> FALSE, client |-> FALSE, calls |-> <<>>],
        lib |-> lib]
  ELSE LET r == ProcessSonarrWebhook(config, webhook_data, lib, outs)
       IN  [run |-> [op |-> "sonarr_webhook", config |-> config,
                     data |-> webhook_data, processed |-> TRUE,
                     status |-> IF r.result THEN 200 ELSE 500,
                     result |-> r.result, client |-> r.client,
                     calls |-> r.calls],
            lib |-> r.lib]

\* radarr_webhook, for a request whose token resolved to config
HandleRadarrWebhook(config, webhook_data, lib, outcome) ==
  IF webhook_data = EmptyPayload
  THEN [run |-> [op |-> "radarr_webhook", config |-> config,
                 data |-> webhook_data, processed |-> FALSE, status |-> 400,
                 result |-> FALSE, client |-> FALSE, calls |-> <<>>],
        lib |-> lib]
  ELSE LET r == ProcessRadarrWebhook(config, webhook_data, lib, outcome)
       IN  [run |-> [op |-> "radarr_webhook", config |-> config,
                     data |-> webhook_data, processed |-> TRUE,
                     status |-> IF r.result THEN 200 ELSE 500,
                     result |-> r.result, client |-> r.client,
                     calls |-> r.calls],
            lib |-> r.lib]

\* force_unmonitor, for a stored configuration: the scan of its service type
HandleForceUnmonitor(config, lib, net) ==
  LET r == IF config.service_type = "sonarr"
           THEN ProcessSonarrForceUnmonitor(config, lib, net)
           ELSE ProcessRadarrForceUnmonitor(config, lib, net)
  IN  [run |-> [op |-> "force_unmonitor", config |-> config, data |-> None,
                processed |-> TRUE, status |-> 200, result |-> r.result,
                client |-> r.client, calls |-> r.calls],
       lib |-> r.lib]

(***************************************************************************)
(* Input domains of the orchestrators.                                     *)
(***************************************************************************)
ScoreOnly == [customFormatScore |-> Some(MaxScore), customFormats |-> None]

FormatOnly ==
  [customFormatScore |-> None,
   customFormats |-> Some(<<[name |-> Some(<<"A", "b">>)]>>)]

OrchQualities == {ScoreOnly, FormatOnly}

OrchConfigs(service_type) ==
  [service_type : {service_type},
   quality_score : {None, Some(0), Some(MaxScore)},
   format_name : {None, Some(<<>>), Some(<<"a">>)}]

EventTypes == {"Download", "Grab"}

EpisodeIds == 1..MaxEpisodes

MovieIds == 1..MaxMovies

SonarrPayloads ==
  [eventType : Opt(EventTypes),
   episodes : Opt(SeqsUpTo([id : Opt(EpisodeIds)], MaxPayloadEpisodes)),
   movie : {None},
   customFormatInfo : Opt(OrchQualities)]

RadarrPayloads ==
  [eventType : Opt(EventTypes),
   episodes : {None},
   movie : Opt([id : Opt(MovieIds)]),
   customFormatInfo : Opt(OrchQualities)]

SonarrNets(lib) ==
  [series : BOOLEAN, episodes : [1..Len(lib.series) -> BOOLEAN], bulk : BOOLEAN]

RadarrNets(lib) ==
  [movies : BOOLEAN, file : [1..Len(lib.movies) -> BOOLEAN],
   unmonitor : [1..Len(lib.movies) -> Outcomes]]

\* the k-th series a server lists, with or without its id
SeriesDocs(k) == {[id |-> None], [id |-> Some(k)]}

\* the k-th episode a server lists: with or without its id, of any series,
\* monitored or not, without a file or with a file of some quality
EpisodeDocs(k) ==
  {[id |-> id, seriesId |-> s, monitored |-> m, hasFile |-> f # None,
    episodeFile |-> f] :
     id \in {None, Some(k)}, s \in 1..MaxSeries, m \in BOOLEAN,
     f \in Opt(OrchQualities)}

\* the k-th movie a server lists
MovieDocs(k) ==
  {[id |-> id, movieFileId |-> IF f = None THEN None ELSE Some(k),
    monitored |-> m, movieFile |-> f] :
     id \in {None, Some(k)}, m \in BOOLEAN, f \in Opt(OrchQualities)}

\* the lists of at most n documents whose k-th element is drawn from Docs(k)
ListsOf(Docs(_), n) ==
  UNION {{l \in [1..len -> UNION {Docs(k) : k \in 1..len}] :
            \A k \in 1..len : l[k] \in Docs(k)} : len \in 0..n}

SonarrLibraries ==
  [series : ListsOf(SeriesDocs, MaxSeries),
   episodes : ListsOf(EpisodeDocs, MaxEpisodes)]

RadarrLibraries == [movies : ListsOf(MovieDocs, MaxMovies)]

EmptySonarr == [series |-> <<>>, episodes |-> <<>>]

EmptyRadarr == [movies |-> <<>>]

\* a library of MaxSeries series and MaxEpisodes episodes, all with files
FullSonarr(monitored) ==
  [series |-> [k \in 1..MaxSeries |-> [id |-> Some(k)]],
   episodes |->
     [k \in 1..MaxEpisodes |->
        [id |-> Some(k), seriesId |-> ((k - 1) % MaxSeries) + 1,
         monitored |-> monitored[k], hasFile |-> TRUE,
         episodeFile |-> Some(IF k % 2 = 1 THEN ScoreOnly ELSE FormatOnly)]]]

\* a library of MaxMovies movies, all with files
FullRadarr(monitored) ==
  [movies |->
     [k \in 1..MaxMovies |->
        [id |-> Some(k), movieFileId |-> Some(k), monitored |-> monitored[k],
         movieFile |-> Some(IF k % 2 = 1 THEN ScoreOnly ELSE FormatOnly)]]]

(***************************************************************************)
(* Actions.                                                                *)
(***************************************************************************)
SonarrWebhook ==
  \E config \in OrchConfigs("sonarr"), webhook_data \in SonarrPayloads,
     outs \in [1..MaxPayloadEpisodes -> Outcomes] :
    LET h == HandleSonarrWebhook(config, webhook_data, sonarr, outs)
    IN  /\ run' = h.run
        /\ sonarr' = h.lib
        /\ UNCHANGED <<gate, radarr, configs, uuids>>

RadarrWebhook ==
  \E config \in OrchConfigs("radarr"), webhook_data \in RadarrPayloads,
     outcome \in Outcomes :
    LET h == HandleRadarrWebhook(config, webhook_data, radarr, outcome)
    IN  /\ run' = h.run
        /\ radarr' = h.lib
        /\ UNCHANGED <<gate, sonarr, configs, uuids>>

SonarrForceUnmonitor(config) ==
  \E net \in SonarrNets(sonarr) :
    LET h == HandleForceUnmonitor(config, sonarr, net)
    IN  /\ run' = h.run
        /\ sonarr' = h.lib
        /\ UNCHANGED <<gate, radarr, configs, uuids>>

RadarrForceUnmonitor(config) ==
  \E net \in RadarrNets(radarr) :
    LET h == HandleForceUnmonitor(config, radarr, net)
    IN  /\ run' = h.run
        /\ radarr' = h.lib
        /\ UNCHANGED <<gate, sonarr, configs, uuids>>

\* the response is delivered and the server waits for the next request
Respond ==
  /\ run # Idle
  /\ run' = Idle
  /\ UNCHANGED <<gate, sonarr, radarr, configs, uuids>>

GateUnused ==
  [evaluated |-> FALSE, config |-> [quality_score |-> None, format_name |-> None],
   quality |-> None, verdict |-> [site \in Sites |-> FALSE]]

\* both servers hold a full library; any item may already be unmonitored
Init ==
  /\ gate = GateUnused
  /\ \E monitored \in [EpisodeIds -> BOOLEAN] : sonarr = FullSonarr(monitored)
  /\ \E monitored \in [MovieIds -> BOOLEAN] : radarr = FullRadarr(monitored)
  /\ run = Idle
  /\ configs = <<>>
  /\ uuids = 0

\* requests are handled one at a time
Next ==
  \/ run = Idle /\ SonarrWebhook
  \/ run = Idle /\ RadarrWebhook
  \/ run = Idle /\ \E config \in OrchConfigs("sonarr") : SonarrForceUnmonitor(config)
  \/ run = Idle /\ \E config \in OrchConfigs("radarr") : RadarrForceUnmonitor(config)
  \/ Respond

Spec == Init /\ [][Next]_vars

\* one server holds any library, the other none
InitScan ==
  /\ gate = GateUnused
  /\ \/ sonarr \in SonarrLibraries /\ radarr = EmptyRadarr
     \/ sonarr = EmptySonarr /\ radarr \in RadarrLibraries
  /\ run = Idle
  /\ configs = <<>>
  /\ uuids = 0

\* force scans: of any configuration, and again of the configuration that
\* was just scanned, with nothing else touching the library in between
NextScan ==
  \/ run = Idle /\ \E config \in OrchConfigs("sonarr") : SonarrForceUnmonitor(config)
  \/ run = Idle /\ \E config \in OrchConfigs("radarr") : RadarrForceUnmonitor(config)
  \/ run # Idle /\ run.config.service_type = "sonarr" /\ SonarrForceUnmonitor(run.config)
  \/ run # Idle /\ run.config.service_type = "radarr" /\ RadarrForceUnmonitor(run.config)
  \/ Respond

SpecScan == InitScan /\ [][NextScan]_vars

(***************************************************************************)
(* ConfigManager (src/config_manager.py).  A stored configuration keeps    *)
(* the fields the handlers read: id, webhook_token, service_type,          *)
(* quality_score and format_name.  uuid4() returns a value it has not      *)
(* returned before: the n-th value drawn is the number n.                  *)
(***************************************************************************)
MaxConfigs == 2
MaxUuids == 5

\* the keys update_config accepts
UpdatableKeys ==
  {"name", "service_type", "ip_address", "api_token", "quality_score",
   "format_name"}

HasConfig(cfgs, config_id) == \E i \in 1..Len(cfgs) : cfgs[i].id = config_id

AddConfig(cfgs, n, service_type, quality_score, format_name) ==
  LET config_id == n + 1
      webhook_token == n + 2
      config == [id |-> config_id,
                 service_type |-> service_type,
                 webhook_token |-> webhook_token,
                 quality_score |-> quality_score,
                 format_name |-> IF TruthyStr(Some(format_name))
                                 THEN Some(format_name) ELSE None]
  IN  [configs |-> Append(cfgs, config), uuids |-> n + 2, ret |-> webhook_token]

DeleteConfig(cfgs, config_id) ==
  IF HasConfig(cfgs, config_id)
  THEN [configs |-> SelectSeq(cfgs, LAMBDA c : c.id # config_id), ret |-> TRUE]
  ELSE [configs |-> cfgs, ret |-> FALSE]

GetConfigByToken(cfgs, webhook_token) ==
  LET matching == SelectSeq(cfgs, LAMBDA c : c.webhook_token = webhook_token)
  IN  IF matching = <<>> THEN None ELSE Some(Head(matching))

RegenerateWebhookToken(cfgs, n, config_id) ==
  IF HasConfig(cfgs, config_id)
  THEN LET new_token == n + 1
       IN  [configs |-> [i \in 1..Len(cfgs) |->
                           IF cfgs[i].id = config_id
                           THEN [cfgs[i] EXCEPT !.webhook_token = new_token]
                           ELSE cfgs[i]],
            uuids |-> n + 1, ret |-> Some(new_token)]
  ELSE [configs |-> cfgs, uuids |-> n, ret |-> None]

\* update_config that accepts every key it is given
UpdateConfigAnyKey(cfgs, config_id, kwargs) ==
  IF HasConfig(cfgs, config_id)
  THEN [configs |-> [i \in 1..Len(cfgs) |->
                       IF cfgs[i].id = config_id
                       THEN [key \in DOMAIN cfgs[i] \cup DOMAIN kwargs |->
                               IF key \in DOMAIN kwargs
                               THEN kwargs[key] ELSE cfgs[i][key]]
                       ELSE cfgs[i]],
        ret |-> TRUE]
  ELSE [configs |-> cfgs, ret |-> FALSE]

UpdateConfig(cfgs, config_id, kwargs) ==
  IF HasConfig(cfgs, config_id)
  THEN [configs |-> [i \in 1..Len(cfgs) |->
                       IF cfgs[i].id = config_id
                       THEN [key \in DOMAIN cfgs[i] \cup
                                     (DOMAIN kwargs \cap UpdatableKeys) |->
                               IF key \in DOMAIN kwargs /\ key \in UpdatableKeys
                               THEN kwargs[key] ELSE cfgs[i][key]]
                       ELSE cfgs[i]],
        ret |-> TRUE]
  ELSE [configs |-> cfgs, ret |-> FALSE]

(***************************************************************************)
(* The webhook routes with their token check.                              *)
(***************************************************************************)
\* return 'Unauthorized', 401
Unauthorized(op, webhook_token) ==
  [op |-> op, token |-> webhook_token, config |-> None, data |-> None,
   processed |-> FALSE, status |-> 401, result |-> FALSE, client |-> FALSE,
   calls |-> <<>>]

\* sonarr_webhook without the check of the configuration's service type
SonarrWebhookRouteAnyService(cfgs, webhook_token, webhook_data, lib, outs) ==
  IF webhook_token = None
  THEN [run |-> Unauthorized("sonarr_webhook", webhook_token), lib |-> lib]
  ELSE LET config == GetConfigByToken(cfgs, webhook_token[1])
       IN  IF config = None
           THEN [run |-> Unauthorized("sonarr_webhook", webhook_token),
                 lib |-> lib]
           ELSE LET h == HandleSonarrWebhook(config[1], webhook_data, lib, outs)
                IN  [run |-> [token |-> webhook_token] @@ h.run, lib |-> h.lib]

SonarrWebhookRoute(cfgs, webhook_token, webhook_data, lib, outs) ==
  IF webhook_token = None
  THEN [run |-> Unauthorized("sonarr_webhook", webhook_token), lib |-> lib]
  ELSE LET config == GetConfigByToken(cfgs, webhook_token[1])
       IN  IF config = None \/ config[1].service_type # "sonarr"
           THEN [run |-> Unauthorized("sonarr_webhook", webhook_token),
                 lib |-> lib]
           ELSE LET h == HandleSonarrWebhook(config[1], webhook_data, lib, outs)
                IN  [run |-> [token |-> webhook_token] @@ h.run, lib |-> h.lib]

RadarrWebhookRoute(cfgs, webhook_token, webhook_data, lib, outcome) ==
  IF webhook_token = None
  THEN [run |-> Unauthorized("radarr_webhook", webhook_token), lib |-> lib]
  ELSE LET config == GetConfigByToken(cfgs, webhook_token[1])
       IN  IF config = None \/ config[1].service_type # "radarr"
           THEN [run |-> Unauthorized("radarr_webhook", webhook_token),
                 lib |-> lib]
           ELSE LET h == HandleRadarrWebhook(config[1], webhook_data, lib, outcome)
                IN  [run |-> [token |-> webhook_token] @@ h.run, lib |-> h.lib]

(***************************************************************************)
(* Requests against the configuration store.                               *)
(***************************************************************************)
\* the service types the add_config form can post; "lidarr" is refused
PostedServiceTypes == {"sonarr", "radarr", "lidarr"}

\* uuid strings a request can carry: those drawn so far, and 0 for any other
KnownUuids == 0..uuids

\* keyword arguments of update_config over the stored fields
UpdateKwargs ==
  {[key \in keys |-> all[key]] :
     all \in [service_type : {"sonarr", "radarr"},
              quality_score : {None, Some(0)},
              webhook_token : 0..MaxUuids],
     keys \in SUBSET {"service_type", "quality_score", "webhook_token"}}

\* the empty payload, and a "Download" payload whose score passes a
\* threshold of 0
StoreSonarrPayloads ==
  {EmptyPayload,
   [eventType |-> Some("Download"), episodes |-> Some(<<[id |-> Some(1)]>>),
    movie |-> None, customFormatInfo |-> Some(ScoreOnly)]}

StoreRadarrPayloads ==
  {EmptyPayload,
   [eventType |-> Some("Download"), episodes |-> None,
    movie |-> Some([id |-> Some(1)]), customFormatInfo |-> Some(ScoreOnly)]}

\* the add_config route: validation, connection test, ConfigManager.add_config
AddConfigRequest ==
  \E service_type \in PostedServiceTypes, quality_score \in {None, Some(0)},
     format_name \in {<<>>, <<"a">>}, connected \in BOOLEAN :
    /\ Len(configs) < MaxConfigs
    /\ uuids + 2 <= MaxUuids
    /\ IF service_type \in {"sonarr", "radarr"} /\ connected
       THEN LET r == AddConfig(configs, uuids, service_type, quality_score,
                               format_name)
            IN  /\ configs' = r.configs
                /\ uuids' = r.uuids
                /\ run' = [op |-> "add_config", ret |-> Some(r.ret)]
       ELSE /\ run' = [op |-> "add_config", ret |-> None]
            /\ UNCHANGED <<configs, uuids>>
    /\ UNCHANGED <<gate, sonarr, radarr>>

DeleteConfigRequest ==
  \E config_id \in KnownUuids :
    LET r == DeleteConfig(configs, config_id)
    IN  /\ configs' = r.configs
        /\ run' = [op |-> "delete_config", config_id |-> config_id,
                   ret |-> r.ret]
        /\ UNCHANGED <<gate, sonarr, radarr, uuids>>

RegenerateTokenRequest ==
  \E config_id \in KnownUuids :
    /\ uuids + 1 <= MaxUuids
    /\ LET r == RegenerateWebhookToken(configs, uuids, config_id)
       IN  /\ configs' = r.configs
           /\ uuids' = r.uuids
           /\ run' = [op |-> "regenerate_token", config_id |-> config_id,
                      ret |-> r.ret]
    /\ UNCHANGED <<gate, sonarr, radarr>>

UpdateConfigCall ==
  \E config_id \in KnownUuids, kwargs \in UpdateKwargs :
    LET r == UpdateConfig(configs, config_id, kwargs)
    IN  /\ configs' = r.configs
        /\ run' = [op |-> "update_config", config_id |-> config_id,
                   ret |-> r.ret]
        /\ UNCHANGED <<gate, sonarr, radarr, uuids>>

SonarrWebhookRequest ==
  \E webhook_token \in Opt(KnownUuids), webhook_data \in StoreSonarrPayloads,
     outcome \in Outcomes :
    LET h == SonarrWebhookRoute(configs, webhook_token, webhook_data, sonarr,
                                [k \in 1..MaxPayloadEpisodes |-> outcome])
    IN  /\ run' = h.run
        /\ sonarr' = h.lib
        /\ UNCHANGED <<gate, radarr, configs, uuids>>

RadarrWebhookRequest ==
  \E webhook_token \in Opt(KnownUuids), webhook_data \in StoreRadarrPayloads,
     outcome \in Outcomes :
    LET h == RadarrWebhookRoute(configs, webhook_token, webhook_data, radarr,
                                outcome)
    IN  /\ run' = h.run
        /\ radarr' = h.lib
        /\ UNCHANGED <<gate, sonarr, configs, uuids>>

\* the store is empty and every item of the libraries is monitored
InitStore ==
  /\ gate = GateUnused
  /\ sonarr = FullSonarr([k \in EpisodeIds |-> TRUE])
  /\ radarr = FullRadarr([k \in MovieIds |-> TRUE])
  /\ run = Idle
  /\ configs = <<>>
  /\ uuids = 0

NextStore ==
  \/ run = Idle /\ AddConfigRequest
  \/ run = Idle /\ DeleteConfigRequest
  \/ run = Idle /\ RegenerateTokenRequest
  \/ run = Idle /\ UpdateConfigCall
  \/ run = Idle /\ SonarrWebhookRequest
  \/ run = Idle /\ RadarrWebhookRequest
  \/ Respond

SpecStore == InitStore /\ [][NextStore]_vars

(***************************************************************************)
(* The client on its own: one method called on a client of either service  *)
(* type, each request it sends answered in one of the ways _make_request   *)
(* tells apart.                                                            *)
(***************************************************************************)
Responses == {"ok", "timeout", "connection_error", "http_error"}

\* _make_request: a document when the request succeeded, None otherwise
MakeRequest(response) == response = "ok"

\* the outcome of a fetch followed by an update
OutcomeOf(get, put) ==
  IF ~MakeRequest(get) THEN "get_failed"
  ELSE IF ~MakeRequest(put) THEN "put_failed"
  ELSE "ok"

TestConnection(lib, ok) == [ret |-> ok, http |-> <<"GET">>, lib |-> lib]

SonarrFns == {"unmonitor_episode", "unmonitor_episodes", "get_episodes", "get_series"}

RadarrFns == {"unmonitor_movie", "get_movies", "get_movie_file"}

\* the arguments a method is called with; ids run one past the stored ones
ArgsOf(fn) ==
  CASE fn = "unmonitor_episode" -> 1..(MaxEpisodes + 1)
    [] fn = "unmonitor_episodes" -> SeqsUpTo(EpisodeIds, 2)
    [] fn = "get_episodes" -> 1..MaxSeries
    [] fn = "unmonitor_movie" -> 1..(MaxMovies + 1)
    [] fn = "get_movie_file" -> Opt(1..(MaxMovies + 1))
    [] OTHER -> {None}

ClientCall ==
  \E service_type \in {"sonarr", "radarr"},
     fn \in SonarrFns \cup RadarrFns \cup {"test_connection"},
     get \in Responses, put \in Responses :
    \E arg \in ArgsOf(fn) :
      LET lib == IF fn \in RadarrFns THEN radarr ELSE sonarr
          r == CASE fn = "unmonitor_episode" ->
                      UnmonitorEpisode(service_type, lib, arg, OutcomeOf(get, put))
                 [] fn = "unmonitor_episodes" ->
                      UnmonitorEpisodes(service_type, lib, arg, MakeRequest(put))
                 [] fn = "get_episodes" ->
                      GetEpisodes(service_type, lib, arg, MakeRequest(get))
                 [] fn = "get_series" ->
                      GetSeries(service_type, lib, MakeRequest(get))
                 [] fn = "unmonitor_movie" ->
                      UnmonitorMovie(service_type, lib, arg, OutcomeOf(get, put))
                 [] fn = "get_movies" ->
                      GetMovies(service_type, lib, MakeRequest(get))
                 [] fn = "get_movie_file" ->
                      GetMovieFile(service_type, lib, arg, MakeRequest(get))
                 [] OTHER -> TestConnection(lib, MakeRequest(get))
      IN  /\ run' = [op |-> "client", service_type |-> service_type,
                     get |-> get, put |-> put, call |-> Call(fn, arg, r)]
          /\ IF fn \in RadarrFns
             THEN radarr' = r.lib /\ UNCHANGED sonarr
             ELSE sonarr' = r.lib /\ UNCHANGED radarr
          /\ UNCHANGED <<gate, configs, uuids>>

NextClient ==
  \/ run = Idle /\ ClientCall
  \/ Respond

SpecClient == Init /\ [][NextClient]_vars

(***************************************************************************)
(* Properties of the quality gate (checked under SpecGate).                *)
(***************************************************************************)
\* the score of the drawn quality document, an absent one counting as 0
DrawnScore ==
  IF gate.quality = None THEN 0
  ELSE IF gate.quality[1].customFormatScore = None THEN 0
  ELSE gate.quality[1].customFormatScore[1]

\* the names the drawn quality document lists (entries without a name have none)
DrawnNames ==
  IF gate.quality = None THEN {}
  ELSE IF gate.quality[1].customFormats = None THEN {}
  ELSE {e.name[1] : e \in {x \in Range(gate.quality[1].customFormats[1]) :
                             x.name # None}}

OnlyThreshold(config) ==
  config.quality_score # None /\ (config.format_name \in {None, Some(<<>>)})

OnlyFormatName(config) ==
  config.quality_score = None /\ (config.format_name \notin {None, Some(<<>>)})

NoCriteria(config) ==
  config.quality_score = None /\ (config.format_name \in {None, Some(<<>>)})

\* s with every upper-case letter replaced by its lower-case letter
Folded(s) == [i \in 1..Len(s) |-> IF s[i] = "A" THEN "a" ELSE s[i]]

\* sub occurs in s as a contiguous run of characters, letter case ignored
OccursIn(sub, s) ==
  \E from \in 1..(Len(s) + 1), to \in 0..Len(s) :
    SubSeq(Folded(s), from, to) = Folded(sub)

\* C1: with only a threshold T configured, each of the four copies of the
\* gate gives true exactly when the score S (0 when absent) is at least T.
C1_ThresholdIff ==
  (gate.evaluated /\ OnlyThreshold(gate.config)) =>
    \A site \in Sites :
      gate.verdict[site] = (DrawnScore >= gate.config.quality_score[1])

\* an absent score met a threshold of 0 at every copy
C1_Witness ==
  /\ gate.evaluated
  /\ OnlyThreshold(gate.config)
  /\ gate.config.quality_score = Some(0)
  /\ gate.quality # None
  /\ gate.quality[1].customFormatScore = None
  /\ \A site \in Sites : gate.verdict[site]

\* C2: with only a non-empty substring F configured, each copy of the gate
\* gives true exactly when some listed format name contains F, letter case
\* ignored; no listed name gives false.
C2_SubstringIff ==
  (gate.evaluated /\ OnlyFormatName(gate.config)) =>
    \A site \in Sites :
      gate.verdict[site] =
        (\E name \in DrawnNames : OccursIn(gate.config.format_name[1], name))

\* "A" matched the longer name "ba", of the other letter case, at every copy
C2_Witness ==
  /\ gate.evaluated
  /\ gate.config = [quality_score |-> None, format_name |-> Some(<<"A">>)]
  /\ gate.quality # None
  /\ gate.quality[1].customFormats = Some(<<[name |-> Some(<<"b", "a">>)]>>)
  /\ \A site \in Sites : gate.verdict[site]

(***************************************************************************)
(* Properties of the orchestrators (checked under Spec).                   *)
(***************************************************************************)
UnmonitorFns == {"unmonitor_episode", "unmonitor_episodes", "unmonitor_movie"}

EnumerationFns == {"get_series", "get_episodes", "get_movies"}

\* a request was handed to its orchestrator
Ran == run # Idle /\ run.processed

WebhookRan == Ran /\ run.op \in {"sonarr_webhook", "radarr_webhook"}

NoUnmonitorCall == \A i \in 1..Len(run.calls) : run.calls[i].fn \notin UnmonitorFns

\* a listing call of the run returned None
EnumerationFailed ==
  \E i \in 1..Len(run.calls) :
    run.calls[i].fn \in EnumerationFns /\ run.calls[i].ret = None

\* the ids of the items the payload lists, in payload order
ListedIds(data) ==
  LET ids(docs) == [i \in 1..Len(docs) |-> docs[i].id[1]]
  IN  ids(SelectSeq(Get(data.episodes, <<>>) \o
                      (IF data.movie = None THEN <<>> ELSE data.movie),
                    LAMBDA doc : doc.id # None))

\* the arguments of the client calls of the run, in the order of the calls
CallArgs == [i \in 1..Len(run.calls) |-> run.calls[i].arg]

\* C3 as claimed: a configuration without criteria never unmonitors, and
\* every run with it reports success.
C3_Original ==
  (Ran /\ NoCriteria(run.config)) => (NoUnmonitorCall /\ run.result)

\* C3, amended: with a configuration that has neither a threshold nor a
\* non-empty substring the gate is false, no run issues an unmonitor call,
\* and the run reports success unless it is a scan one of whose listing calls
\* failed, which reports failure.
C3_NoCriteriaNoUnmonitor ==
  (Ran /\ NoCriteria(run.config)) =>
    /\ \A quality \in Opt(OrchQualities), site \in Sites :
         ~Verdicts(run.config, quality)[site]
    /\ NoUnmonitorCall
    /\ run.result = ~EnumerationFailed

\* a scan with an empty substring and no threshold listed monitored episodes
\* with files, unmonitored nothing and reported success
C3_Witness ==
  /\ Ran
  /\ run.op = "force_unmonitor"
  /\ run.config = [service_type |-> "sonarr", quality_score |-> None,
                   format_name |-> Some(<<>>)]
  /\ \E i \in 1..Len(run.calls) :
       /\ run.calls[i].fn = "get_episodes"
       /\ run.calls[i].ret # None
       /\ \E j \in 1..Len(run.calls[i].ret[1]) :
            run.calls[i].ret[1][j].monitored /\ run.calls[i].ret[1][j].hasFile
  /\ NoUnmonitorCall
  /\ run.result

\* C4: a webhook whose eventType is not "Download" (or is absent) is answered
\* with success without a client and without any remote call.
C4_OtherEventsIgnored ==
  (WebhookRan /\ run.data.eventType # Some("Download")) =>
    (run.result /\ run.status = 200 /\ ~run.client /\ run.calls = <<>>)

\* a Radarr payload without eventType, of a quality and for a configuration
\* the gate would pass, caused no call
C4_Witness ==
  /\ WebhookRan
  /\ run.op = "radarr_webhook"
  /\ run.data.eventType = None
  /\ run.data.movie = Some([id |-> Some(1)])
  /\ run.data.customFormatInfo = Some(ScoreOnly)
  /\ run.config.quality_score = Some(MaxScore)
  /\ run.status = 200
  /\ run.calls = <<>>

\* C5: a webhook that reached its orchestrator is answered 200, and a failed
\* unmonitor call does not keep the remaining listed items from their calls.
C5_WebhookAlwaysOk ==
  WebhookRan =>
    /\ run.status = 200
    /\ run.calls # <<>> => Len(run.calls) = Len(ListedIds(run.data))

\* the call for the first listed episode failed, the second was still made
\* and succeeded, and the answer was 200
C5_Witness ==
  /\ WebhookRan
  /\ run.op = "sonarr_webhook"
  /\ Len(run.calls) = 2
  /\ ~run.calls[1].ret
  /\ run.calls[2].ret
  /\ run.status = 200

\* C6: a Sonarr "Download" webhook whose gate verdict is true makes one
\* unmonitor_episode call per listed episode that has an id, in payload
\* order, and none for the others; with a false verdict it makes none.
C6_OneCallPerListedEpisode ==
  (Ran /\ run.op = "sonarr_webhook" /\ run.data.eventType = Some("Download")) =>
    IF SonarrWebhookGate(run.config, run.data)
    THEN /\ CallArgs = ListedIds(run.data)
         /\ \A i \in 1..Len(run.calls) : run.calls[i].fn = "unmonitor_episode"
    ELSE run.calls = <<>>

\* episodes 2 and 1 were listed in that order and called in that order
C6_Witness ==
  /\ Ran
  /\ run.op = "sonarr_webhook"
  /\ run.data.episodes = Some(<<[id |-> Some(2)], [id |-> Some(1)]>>)
  /\ CallArgs = <<2, 1>>

(***************************************************************************)
(* Properties of the force scans (checked under SpecScan).                 *)
(***************************************************************************)
SonarrScan(r) == r # Idle /\ r.op = "force_unmonitor" /\ r.config.service_type = "sonarr"

RadarrScan(r) == r # Idle /\ r.op = "force_unmonitor" /\ r.config.service_type = "radarr"

\* the calls of r made through fn, in order
CallsOf(r, fn) == SelectSeq(r.calls, LAMBDA c : c.fn = fn)

EnumerationFailedIn(r) ==
  \E i \in 1..Len(r.calls) : r.calls[i].fn \in EnumerationFns /\ r.calls[i].ret = None

NoUnmonitorCallIn(r) == \A i \in 1..Len(r.calls) : r.calls[i].fn \notin UnmonitorFns

\* the ids of the series lib lists, in order
ListedSeriesIds(lib) ==
  LET withId == SelectSeq(lib.series, LAMBDA serie : serie.id # None)
  IN  [i \in 1..Len(withId) |-> withId[i].id[1]]

\* the ids of the episodes of the listed series of lib that are monitored,
\* have a file and pass the gate of config
MatchingEpisodeIds(config, lib) ==
  {e.id[1] : e \in {x \in Range(lib.episodes) :
                      /\ x.id # None
                      /\ x.seriesId \in Range(ListedSeriesIds(lib))
                      /\ x.monitored
                      /\ x.hasFile
                      /\ SonarrScanGate(config, x)}}

\* C7: a Sonarr scan whose listing calls succeed lists the episodes of every
\* listed series and then makes one bulk call carrying exactly the ids of the
\* monitored episodes with a file that pass the gate, each once; when there
\* are none it sends no mutating request and reports success.
C7_OneBulkCall ==
  [][(SonarrScan(run') /\ ~EnumerationFailedIn(run')) =>
       LET ids == MatchingEpisodeIds(run'.config, sonarr)
           bulk == CallsOf(run', "unmonitor_episodes")
           n == Len(run'.calls)
       IN  /\ [i \in 1..Len(CallsOf(run', "get_episodes")) |->
                 CallsOf(run', "get_episodes")[i].arg] = ListedSeriesIds(sonarr)
           /\ \A i \in 1..n :
                run'.calls[i].fn \in UnmonitorFns =>
                  (i = n /\ run'.calls[i].fn = "unmonitor_episodes")
           /\ ids # {} =>
                /\ Len(bulk) = 1
                /\ Range(bulk[1].arg) = ids
                /\ Len(bulk[1].arg) = Cardinality(ids)
                /\ run'.result = bulk[1].ret
           /\ ids = {} =>
                /\ bulk = <<>>
                /\ \A i \in 1..n : run'.calls[i].http = <<"GET">>
                /\ run'.result
     ]_vars

\* the episodes of two series were listed and one bulk call carried an id of
\* each, while an episode that was already unmonitored stayed out of it
C7_Witness ==
  /\ SonarrScan(run)
  /\ Len(run.calls) = 4
  /\ run.calls[2].fn = "get_episodes"
  /\ run.calls[3].fn = "get_episodes"
  /\ run.calls[4].fn = "unmonitor_episodes"
  /\ run.calls[4].arg = <<1, 2>>
  /\ run.calls[4].ret

\* the movies of the listing a Radarr scan goes on to fetch the file of
Considered(movie) ==
  movie.id # None /\ movie.movieFileId # None /\ movie.monitored

\* C8: in a Radarr scan whose listing succeeded, a movie whose file fetch
\* fails gets no unmonitor call, every other movie with a file that is still
\* monitored is fetched and, when it passes the gate, gets its unmonitor
\* call, and the scan reports success.
C8_FetchFailureSkipsMovie ==
  (RadarrScan(run) /\ run.calls[1].ret # None) =>
    /\ run.result
    /\ \A k \in 1..Len(run.calls[1].ret[1]) :
         LET movie == run.calls[1].ret[1][k]
         IN  Considered(movie) =>
               \E i \in 1..Len(run.calls) :
                 /\ run.calls[i].fn = "get_movie_file"
                 /\ run.calls[i].arg = movie.movieFileId[1]
                 /\ run.calls[i].ret = None =>
                      \A j \in 1..Len(run.calls) :
                        ~(run.calls[j].fn = "unmonitor_movie"
                          /\ run.calls[j].arg = movie.id[1])
                 /\ (run.calls[i].ret # None
                     /\ RadarrScanGate(run.config, run.calls[i].ret[1])) =>
                      /\ i < Len(run.calls)
                      /\ run.calls[i + 1].fn = "unmonitor_movie"
                      /\ run.calls[i + 1].arg = movie.id[1]

\* the file of movie 1 could not be fetched; movie 2 was still fetched and
\* unmonitored, and the scan reported success
C8_Witness ==
  /\ RadarrScan(run)
  /\ Len(run.calls) = 4
  /\ run.calls[2].fn = "get_movie_file"
  /\ run.calls[2].arg = 1
  /\ run.calls[2].ret = None
  /\ run.calls[3].fn = "get_movie_file"
  /\ run.calls[4].fn = "unmonitor_movie"
  /\ run.calls[4].arg = 2
  /\ run.calls[4].ret
  /\ run.result

\* C9: a Radarr scan reports success exactly when listing the movies
\* succeeded; when the listing fails nothing else is called; and a failed
\* unmonitor call does not stop it: every listed movie with a file that is
\* still monitored has its file fetched.
C9_RadarrScanResult ==
  RadarrScan(run) =>
    /\ run.calls[1].fn = "get_movies"
    /\ run.result = (run.calls[1].ret # None)
    /\ run.calls[1].ret = None => Len(run.calls) = 1
    /\ run.calls[1].ret # None =>
         Len(CallsOf(run, "get_movie_file")) =
           Len(SelectSeq(run.calls[1].ret[1], Considered))

\* the unmonitor call for movie 1 failed; movie 2 was still fetched, and the
\* scan reported success
C9_Witness ==
  /\ RadarrScan(run)
  /\ Len(run.calls) >= 4
  /\ run.calls[3].fn = "unmonitor_movie"
  /\ run.calls[3].arg = 1
  /\ ~run.calls[3].ret
  /\ run.calls[4].fn = "get_movie_file"
  /\ run.calls[4].arg = 2
  /\ run.result

\* every unmonitor call of r returned True
AllUnmonitorOk(r) ==
  \A i \in 1..Len(r.calls) : r.calls[i].fn \in UnmonitorFns => r.calls[i].ret

\* every call of r succeeded: listings, file fetches and unmonitor calls
AllCallsOk(r) ==
  \A i \in 1..Len(r.calls) :
    IF r.calls[i].fn \in UnmonitorFns THEN r.calls[i].ret
    ELSE r.calls[i].ret # None

\* a scan of a configuration directly followed by a scan of the same one
Rescan == run # Idle /\ run' # Idle /\ run'.config = run.config

\* C10 as claimed: after a scan all of whose unmonitor calls succeeded, a
\* second scan of the same configuration makes no unmonitor call and reports
\* success.
C10_Original ==
  [][(Rescan /\ AllUnmonitorOk(run)) =>
       (NoUnmonitorCallIn(run') /\ run'.result)]_vars

\* C10, amended: after a scan all of whose calls succeeded (listings, file
\* fetches and unmonitor calls), a second scan of the same configuration
\* makes no unmonitor call, and it reports success unless one of its own
\* listing calls fails.
C10_RescanIsNoOp ==
  [][(Rescan /\ AllCallsOk(run)) =>
       (NoUnmonitorCallIn(run') /\ run'.result = ~EnumerationFailedIn(run'))]_vars

\* a scan listed an episode that passes the gate and has a file but is
\* already unmonitored, made no unmonitor call and reported success
C10_Witness ==
  /\ SonarrScan(run)
  /\ run.result
  /\ NoUnmonitorCallIn(run)
  /\ \E i \in 1..Len(run.calls) :
       /\ run.calls[i].fn = "get_episodes"
       /\ run.calls[i].ret # None
       /\ \E j \in 1..Len(run.calls[i].ret[1]) :
            LET episode == run.calls[i].ret[1][j]
            IN  /\ episode.id # None
                /\ ~episode.monitored
                /\ episode.hasFile
                /\ SonarrScanGate(run.config, episode)

\* an episode of a listing that the scan collects
Collected(config, episode) ==
  /\ episode.id # None
  /\ episode.monitored
  /\ episode.hasFile
  /\ SonarrScanGate(config, episode)

\* some listing of r holds an episode that the scan collects
Matched(r) ==
  \E i \in 1..Len(r.calls) :
    /\ r.calls[i].fn = "get_episodes"
    /\ r.calls[i].ret # None
    /\ \E j \in 1..Len(r.calls[i].ret[1]) :
         Collected(r.config, r.calls[i].ret[1][j])

\* C13: a Sonarr scan in which listing the series or the episodes of a
\* series fails stops at that call, makes no unmonitor call, leaves the
\* library as it was and returns False to its caller, which answers
\* normally.
C13_EnumerationFailureAborts ==
  [][(SonarrScan(run') /\ EnumerationFailedIn(run')) =>
       LET n == Len(run'.calls)
       IN  /\ run'.calls[n].fn \in EnumerationFns
           /\ run'.calls[n].ret = None
           /\ \A i \in 1..(n - 1) : run'.calls[i].ret # None
           /\ NoUnmonitorCallIn(run')
           /\ sonarr' = sonarr
           /\ run'.result = FALSE
           /\ run'.status = 200
     ]_vars

\* the episodes of the first series were listed and one of them passed the
\* gate, then listing the episodes of the second series failed
C13_Witness ==
  /\ SonarrScan(run)
  /\ Len(run.calls) = 3
  /\ run.calls[3].fn = "get_episodes"
  /\ run.calls[3].ret = None
  /\ Matched(run)
  /\ ~run.result

(***************************************************************************)
(* Properties of the token check and of the store (checked under           *)
(* SpecStore).                                                             *)
(***************************************************************************)
WebhookRequest == run.op \in {"sonarr_webhook", "radarr_webhook"}

\* the service type the endpoint of the request serves
EndpointService == IF run.op = "sonarr_webhook" THEN "sonarr" ELSE "radarr"

\* the stored configurations that carry the presented token
Owners ==
  {i \in 1..Len(configs) :
     run.token # None /\ configs[i].webhook_token = run.token[1]}

\* C11: a webhook request whose token is missing, belongs to no stored
\* configuration, or belongs to a configuration of the other service type is
\* answered 401 without running the orchestrator and without any client call;
\* any other request runs with the stored configuration that owns its token.
C11_TokenCheck ==
  WebhookRequest =>
    IF \E i \in Owners : configs[i].service_type = EndpointService
    THEN /\ run.status # 401
         /\ \E i \in Owners : run.config = configs[i]
         /\ run.config.service_type = EndpointService
    ELSE /\ run.status = 401
         /\ ~run.processed
         /\ ~run.client
         /\ run.calls = <<>>

\* the token of a Radarr configuration was posted to the Sonarr endpoint and
\* refused, while a Sonarr configuration is stored as well
C11_Witness ==
  /\ run.op = "sonarr_webhook"
  /\ run.status = 401
  /\ Owners # {}
  /\ \A i \in Owners : configs[i].service_type = "radarr"
  /\ \E i \in 1..Len(configs) : configs[i].service_type = "sonarr"

TokensUnique ==
  \A i, j \in 1..Len(configs) :
    i # j => configs[i].webhook_token # configs[j].webhook_token

\* C12: no two stored configurations ever share a webhook token; an update
\* leaves every webhook token as it was; and after a token is regenerated the
\* old token resolves to no configuration and the new one to that
\* configuration.
C12_TokensUnique ==
  /\ []TokensUnique
  /\ [][/\ run'.op = "update_config" =>
             [i \in 1..Len(configs') |-> configs'[i].webhook_token] =
               [i \in 1..Len(configs) |-> configs[i].webhook_token]
        /\ (run'.op = "regenerate_token" /\ run'.ret # None) =>
             \A i \in 1..Len(configs) :
               configs[i].id = run'.config_id =>
                 /\ GetConfigByToken(configs', configs[i].webhook_token) = None
                 /\ GetConfigByToken(configs', run'.ret[1]) = Some(configs'[i])
                 /\ configs'[i].id = run'.config_id
       ]_vars

\* the token of one of two stored configurations has just been regenerated
C12_Witness ==
  /\ run.op = "regenerate_token"
  /\ run.ret # None
  /\ Len(configs) = 2
  /\ \E i \in 1..Len(configs) :
       configs[i].id = run.config_id /\ configs[i].webhook_token = run.ret[1]

(***************************************************************************)
(* Properties of the client (checked under SpecClient).                    *)
(***************************************************************************)
ClientCalled == run.op = "client"

\* the method belongs to the other service than the client's
WrongService ==
  \/ run.call.fn \in SonarrFns /\ run.service_type # "sonarr"
  \/ run.call.fn \in RadarrFns /\ run.service_type # "radarr"

\* the item a single-item unmonitor names is stored, so that fetching it
\* does not answer 404
Stored ==
  IF run.call.fn = "unmonitor_episode" THEN HasEpisode(sonarr, run.call.arg)
  ELSE HasMovie(radarr, run.call.arg)

FetchOk == MakeRequest(run.get) /\ Stored

\* C14: every client method returns a value: False or None when a request
\* it sends times out, cannot connect or gets an error status.  A single-item
\* unmonitor first sends the GET, sends the PUT only when the GET succeeded,
\* and returns True exactly when both succeeded.  A method of the other
\* service returns False or None without sending anything.
C14_ClientFailsClosed ==
  ClientCalled =>
    LET c == run.call
    IN  /\ IF c.fn \in UnmonitorFns \cup {"test_connection"}
           THEN c.ret \in BOOLEAN
           ELSE c.ret = None \/ Len(c.ret) = 1
        /\ WrongService =>
             /\ c.http = <<>>
             /\ IF c.fn \in UnmonitorFns THEN c.ret = FALSE ELSE c.ret = None
        /\ (~WrongService /\ c.fn \in {"unmonitor_episode", "unmonitor_movie"}) =>
             /\ c.http = IF FetchOk THEN <<"GET", "PUT">> ELSE <<"GET">>
             /\ c.ret = (FetchOk /\ MakeRequest(run.put))
        /\ (~WrongService /\ c.fn = "unmonitor_episodes" /\ c.arg # <<>>) =>
             /\ c.http = <<"PUT">>
             /\ c.ret = MakeRequest(run.put)
        /\ (~WrongService /\ c.fn \notin UnmonitorFns /\ ~MakeRequest(run.get)) =>
             IF c.fn = "test_connection" THEN c.ret = FALSE ELSE c.ret = None

\* unmonitor_movie fetched the movie, its update timed out, and it returned
\* False
C14_Witness ==
  /\ ClientCalled
  /\ run.service_type = "radarr"
  /\ run.call.fn = "unmonitor_movie"
  /\ run.get = "ok"
  /\ run.put = "timeout"
  /\ run.call.http = <<"GET", "PUT">>
  /\ run.call.ret = FALSE

(***************************************************************************)
(* Properties of the effect and of the result of the runs (checked under   *)
(* Spec).                                                                  *)
(***************************************************************************)
\* a successful unmonitor call of r named the item id
Unmonitored(r, id) ==
  \E i \in 1..Len(r.calls) :
    /\ r.calls[i].fn \in UnmonitorFns
    /\ r.calls[i].ret
    /\ IF r.calls[i].fn = "unmonitor_episodes"
       THEN id \in Range(r.calls[i].arg)
       ELSE id = r.calls[i].arg

\* C15: a step changes the monitored flag of an item only from true to
\* false, only through a successful unmonitor call of the run that names the
\* item, and only when the gate of that run is true for the quality
\* information of the item (the payload's for a webhook, the item's file for
\* a scan); requests other than unmonitor calls are GET requests.
C15_OnlySwitchedOff ==
  [][/\ Len(sonarr'.episodes) = Len(sonarr.episodes)
     /\ \A j \in 1..Len(sonarr.episodes) :
          sonarr'.episodes[j].monitored # sonarr.episodes[j].monitored =>
            /\ sonarr.episodes[j].monitored
            /\ ~sonarr'.episodes[j].monitored
            /\ Unmonitored(run', sonarr.episodes[j].id[1])
            /\ IF run'.op = "sonarr_webhook"
               THEN SonarrWebhookGate(run'.config, run'.data)
               ELSE /\ SonarrScan(run')
                    /\ SonarrScanGate(run'.config, sonarr.episodes[j])
     /\ Len(radarr'.movies) = Len(radarr.movies)
     /\ \A j \in 1..Len(radarr.movies) :
          radarr'.movies[j].monitored # radarr.movies[j].monitored =>
            /\ radarr.movies[j].monitored
            /\ ~radarr'.movies[j].monitored
            /\ Unmonitored(run', radarr.movies[j].id[1])
            /\ IF run'.op = "radarr_webhook"
               THEN RadarrWebhookGate(run'.config, run'.data)
               ELSE /\ RadarrScan(run')
                    /\ radarr.movies[j].movieFile # None
                    /\ RadarrScanGate(run'.config, radarr.movies[j].movieFile[1])
     /\ run' # Idle =>
          \A i \in 1..Len(run'.calls) :
            run'.calls[i].fn \notin UnmonitorFns =>
              \A k \in 1..Len(run'.calls[i].http) : run'.calls[i].http[k] = "GET"
    ]_vars

\* a Radarr webhook switched movie 1 off while movie 2 is still monitored
C15_Witness ==
  /\ run.op = "radarr_webhook"
  /\ Unmonitored(run, 1)
  /\ ~radarr.movies[1].monitored
  /\ radarr.movies[2].monitored

\* C16: a Sonarr scan whose listings succeeded and held an episode to
\* unmonitor ends with the bulk call and reports what that call returned;
\* a Radarr scan whose listing succeeded and a processed webhook report
\* success whatever their unmonitor calls returned.
C16_ScanResultIsBulkResult ==
  /\ (SonarrScan(run) /\ ~EnumerationFailedIn(run) /\ Matched(run)) =>
       /\ run.calls[Len(run.calls)].fn = "unmonitor_episodes"
       /\ run.result = run.calls[Len(run.calls)].ret
       /\ Len(CallsOf(run, "unmonitor_episodes")) = 1
  /\ (RadarrScan(run) /\ ~EnumerationFailedIn(run)) => run.result
  /\ WebhookRan => run.result

\* the bulk call of a Sonarr scan failed and the scan reported failure
C16_Witness ==
  /\ SonarrScan(run)
  /\ ~EnumerationFailedIn(run)
  /\ run.calls[Len(run.calls)].fn = "unmonitor_episodes"
  /\ ~run.calls[Len(run.calls)].ret
  /\ ~run.result

====
